---- MODULE Spec2Model ----
(***************************************************************************)
(* A model of k-line-predict-mini: the SQLite price cache (database.py),   *)
(* the market data fetcher (data_fetcher.py), the Kronos predictor wrapper *)
(* (predictor.py) and the two CLI commands (main.py).                      *)
(*                                                                         *)
(* Four specifications share the variables:                                *)
(*   SpecDB       StockDatabase: save_stock_data step by step on its own   *)
(*                connection, get_stock_data on another connection;        *)
(*   SpecFetch    DataFetcher.fetch_data and main.download_command;        *)
(*   SpecPredict  main.predict_command and direct calls of                 *)
(*                KronosModelPredictor.predict_next_days                   *)
(*                (FairPredict adds the scheduling of sequential code).    *)
(*   SpecPipeline one caller chaining fetch_data, save_stock_data,         *)
(*                get_stock_data and predict_next_days.                    *)
(***************************************************************************)
EXTENDS Integers, Sequences, FiniteSets, TLC

VARIABLES
    \* ---- database.py
    store,      \* committed contents of table stock_data (what any connection reads)
    dbpc,       \* position of the save_stock_data call: idle / loop / done / raised
    curKey,     \* <<symbol, market>> of the save_stock_data call
    work,       \* the table as seen inside the call's open transaction
    data,       \* rows of the DataFrame argument that iterrows has yielded so far
    writes,     \* number of INSERT OR REPLACE statements executed so far
    pre,        \* committed contents when the latest save_stock_data call connected
    lastWrite,  \* per key and timestamp, the input row of the latest committed write
    ret,        \* value returned by get_stock_data in the latest step
    \* ---- data_fetcher.py, main.download_command
    fpc,        \* position of download_command: start / fetch / fetched / exit
    fargs,      \* args of download_command: symbol, market, start_date, end_date
    freq,       \* the call fetch_data made to the provider (yfinance or AKShare)
    fprov,      \* what the provider did with that call
    fres,       \* what fetch_data returned
    fexit,      \* exit status of the download run
    fout,       \* what the download run delivered: the frame written to the CSV
    \* ---- predictor.py, main.predict_command
    ppc,        \* position: start / loaded / constructed / loop / returned / raised / exit
    pcaller,    \* who runs the predictor: predict_command ("cli") or a direct caller ("api")
    pargs,      \* data, days, granularity, lookback_days of predict_next_days
    pcfg,       \* constructor arguments and environment of KronosModelPredictor
    predictor,  \* the constructed predictor: its resolved settings
    pwin,       \* x_df: the positions of the rows of data in the window
    future_ts,  \* the list future_ts of the timestamp loop
    cursor,     \* the variable cursor of the timestamp loop
    fcall,      \* the call self.predictor.predict(...) made to the forecaster
    perr,       \* the exception raised, and where
    pexit       \* exit status of the predict run

dbVars == <<store, dbpc, curKey, work, data, writes, pre, lastWrite, ret>>

fetchVars == <<fpc, fargs, freq, fprov, fres, fexit, fout>>

predVars == <<ppc, pcaller, pargs, pcfg, predictor, pwin, future_ts, cursor, fcall, perr, pexit>>

\* what the steps of one component leave alone
notDB == <<fetchVars, predVars>>
notFetch == <<dbVars, predVars>>
notPredict == <<dbVars, fetchVars>>

vars == <<store, dbpc, curKey, work, data, writes, pre, lastWrite, ret,
          fpc, fargs, freq, fprov, fres, fexit, fout,
          ppc, pcaller, pargs, pcfg, predictor, pwin, future_ts, cursor, fcall, perr, pexit>>

-----------------------------------------------------------------------------
(* Bounds of the model *)

\* timestamps of input rows are the days 1..NumDays after 2023-09-29
NumDays == 2
\* INSERT statements executed in one behaviour
MaxWrites == 2
\* the largest number of days asked of predict_next_days
MaxDays == 2
\* short series have 0..MaxSeries rows
MaxSeries == 3

-----------------------------------------------------------------------------
(* Calendar dates and their '%Y-%m-%d' text (datetime / pandas.Timestamp)   *)

DaysInMonth(y, m) ==
    IF m = 2 THEN (IF (y % 4 = 0 /\ y % 100 # 0) \/ y % 400 = 0 THEN 29 ELSE 28)
    ELSE IF m \in {4, 6, 9, 11} THEN 30 ELSE 31

\* date + timedelta(days=1)
NextDay(dt) ==
    IF dt.d < DaysInMonth(dt.y, dt.m) THEN [dt EXCEPT !.d = dt.d + 1]
    ELSE IF dt.m < 12 THEN [y |-> dt.y, m |-> dt.m + 1, d |-> 1]
    ELSE [y |-> dt.y + 1, m |-> 1, d |-> 1]

RECURSIVE AddDays(_, _)
AddDays(dt, k) == IF k = 0 THEN dt ELSE AddDays(NextDay(dt), k - 1)

\* the day before the first timestamp that input frames carry
EpochDate == [y |-> 2023, m |-> 9, d |-> 29]

\* the calendar date of day number n
DateOf(n) == AddDays(EpochDate, n)

DateLess(a, b) ==
    \/ a.y < b.y
    \/ a.y = b.y /\ a.m < b.m
    \/ a.y = b.y /\ a.m = b.m /\ a.d < b.d

\* characters are their ASCII codes: '0' is 48, '-' is 45
Digit(k) == 48 + k
Dash == 45

Pad4(n) == <<Digit(n \div 1000), Digit((n \div 100) % 10), Digit((n \div 10) % 10), Digit(n % 10)>>
Pad2(n) == <<Digit(n \div 10), Digit(n % 10)>>

\* a mis-formatting of the date: '%Y-%-m-%-d', without zero padding
Unpadded(n) == IF n < 10 THEN <<Digit(n)>> ELSE <<Digit(n \div 10), Digit(n % 10)>>
StrftimeUnpadded(dt) == Pad4(dt.y) \o <<Dash>> \o Unpadded(dt.m) \o <<Dash>> \o Unpadded(dt.d)

\* date.strftime('%Y-%m-%d')
Strftime(dt) == Pad4(dt.y) \o <<Dash>> \o Pad2(dt.m) \o <<Dash>> \o Pad2(dt.d)

\* SQLite's BINARY collation on TEXT: bytewise, a proper prefix sorts first
StrLess(a, b) ==
    \E i \in 1..(Len(a) + 1) :
        /\ \A j \in 1..(i - 1) : j <= Len(b) /\ a[j] = b[j]
        /\ \/ i = Len(a) + 1 /\ Len(b) >= i
           \/ i <= Len(a) /\ i <= Len(b) /\ a[i] < b[i]

RECURSIVE ParseInt(_)
ParseInt(s) == IF s = <<>> THEN 0 ELSE 10 * ParseInt(SubSeq(s, 1, Len(s) - 1)) + (s[Len(s)] - 48)

\* pd.to_datetime on a 'Y-M-D' text: the three fields between the dashes
ToDatetime(s) ==
    LET p1 == CHOOSE i \in 1..Len(s) : s[i] = Dash /\ \A j \in 1..(i - 1) : s[j] # Dash
        p2 == CHOOSE i \in (p1 + 1)..Len(s) : s[i] = Dash /\ \A j \in (p1 + 1)..(i - 1) : s[j] # Dash
    IN  [y |-> ParseInt(SubSeq(s, 1, p1 - 1)),
         m |-> ParseInt(SubSeq(s, p1 + 1, p2 - 1)),
         d |-> ParseInt(SubSeq(s, p2 + 1, Len(s)))]

-----------------------------------------------------------------------------
(* database.py: StockDatabase                                               *)

\* cell values: a number, a float NaN, or SQL NULL
Num(x) == [k |-> "num", v |-> x]
NaN == [k |-> "nan", v |-> 0]
NULL == [k |-> "null", v |-> 0]

\* get_stock_data's default for days
DefaultDays == 365

\* (symbol, market) pairs the callers use
DbKeys == {<<"BTC", "US">>, <<"BTC", "crypto">>}

\* Rows of the DataFrame argument: prices in cents, Volume in half units (the
\* frame may hold a fractional or a missing volume)
BarA == [Open |-> Num(1000), High |-> Num(1200), Low |-> Num(900), Close |-> Num(1100), Volume |-> Num(200)]
BarB == [Open |-> Num(1100), High |-> Num(1300), Low |-> NaN, Close |-> Num(1250), Volume |-> Num(301)]
BarNaN == [Open |-> Num(1100), High |-> Num(1300), Low |-> Num(1000), Close |-> Num(1200), Volume |-> NaN]
Bars == {BarA, BarB, BarNaN}

InputRows == [ts : 1..NumDays, bar : Bars]

\* float(x) bound to a REAL column: a NaN is stored as NULL
ToReal(x) == IF x = NaN THEN NULL ELSE x

\* int(x): raises on NaN, truncates a non-negative value
IntRaises(x) == x = NaN
ToInt(x) == Num(x.v \div 2)

\* whether the parameter tuple of lines 45-54 can be built for the row
RowConverts(bar) == ~IntRaises(bar.Volume)

\* the parameter tuple of lines 45-54
MakeRow(key, ts, bar) ==
    [symbol |-> key[1], market |-> key[2], date |-> Strftime(DateOf(ts)),
     open |-> ToReal(bar.Open), high |-> ToReal(bar.High), low |-> ToReal(bar.Low),
     close |-> ToReal(bar.Close), volume |-> ToInt(bar.Volume)]

SameKey(r, q) == r.symbol = q.symbol /\ r.market = q.market /\ r.date = q.date

\* INSERT OR IGNORE: a conflicting row is kept
InsertOrIgnore(t, row) == IF \E r \in t : SameKey(r, row) THEN t ELSE t \cup {row}

\* INSERT OR REPLACE under UNIQUE(symbol, market, date)
InsertOrReplace(t, row) == {r \in t : ~SameKey(r, row)} \cup {row}

\* every statement its own transaction (isolation_level=None)
AutocommitAfterExecute(committed, inTxn) == inTxn

\* what other connections see after cursor.execute: the transaction opened
\* implicitly by the first INSERT stays open until conn.commit()
CommittedAfterExecute(committed, inTxn) == committed

\* save_stock_data as a whole: the committed table after the call
RECURSIVE ExecuteAll(_, _, _)
ExecuteAll(t, key, rows) ==
    IF rows = <<>> THEN t
    ELSE ExecuteAll(InsertOrReplace(t, MakeRow(key, Head(rows).ts, Head(rows).bar)), key, Tail(rows))

SaveAll(t, key, rows) ==
    IF \E i \in 1..Len(rows) : ~RowConverts(rows[i].bar) THEN t ELSE ExecuteAll(t, key, rows)

RECURSIVE Record(_, _, _)
Record(lw, key, rows) ==
    IF rows = <<>> THEN lw
    ELSE Record([lw EXCEPT ![key][Head(rows).ts] = {Head(rows).bar}], key, Tail(rows))

\* ORDER BY date ASC
RECURSIVE OrderByDateAsc(_)
OrderByDateAsc(S) ==
    IF S = {} THEN <<>>
    ELSE LET mn == CHOOSE r \in S : \A q \in S : ~StrLess(q.date, r.date)
         IN  <<mn>> \o OrderByDateAsc(S \ {mn})

\* ORDER BY date DESC
RECURSIVE OrderByDateDesc(_)
OrderByDateDesc(S) ==
    IF S = {} THEN <<>>
    ELSE LET mx == CHOOSE r \in S : \A q \in S : ~StrLess(r.date, q.date)
         IN  <<mx>> \o OrderByDateDesc(S \ {mx})

\* LIMIT n (a negative n is no limit)
Limit(q, n) == IF n < 0 \/ n >= Len(q) THEN q ELSE SubSeq(q, 1, n)

\* lines 77-88 for one row: the parsed date becomes the index, columns are renamed
Frame(r) ==
    [date |-> ToDatetime(r.date), Open |-> r.open, High |-> r.high, Low |-> r.low,
     Close |-> r.close, Volume |-> r.volume]

\* df.sort_index(): a stable insertion sort on the parsed dates
RECURSIVE InsertSorted(_, _)
InsertSorted(q, x) ==
    IF q = <<>> THEN <<x>>
    ELSE IF DateLess(x.date, Head(q).date) THEN <<x>> \o q
    ELSE <<Head(q)>> \o InsertSorted(Tail(q), x)

RECURSIVE SortIndex(_)
SortIndex(q) == IF q = <<>> THEN <<>> ELSE InsertSorted(SortIndex(SubSeq(q, 1, Len(q) - 1)), q[Len(q)])

\* the None that stands for "no data"
NoData == [none |-> TRUE, rows |-> <<>>]

\* get_stock_data(symbol, market, days)
get_stock_data(t, symbol, market, days) ==
    LET matching == {r \in t : r.symbol = symbol /\ r.market = market}
        df == Limit(OrderByDateDesc(matching), days)
    IN  IF df = <<>> THEN NoData
        ELSE [none |-> FALSE, rows |-> SortIndex([i \in 1..Len(df) |-> Frame(df[i])])]

NoCall == [call |-> "none", symbol |-> "", market |-> "", days |-> 0, df |-> NoData]

\* conn = sqlite3.connect(...) of save_stock_data
SaveConnect(key) ==
    /\ dbpc \in {"idle", "done", "raised"}
    /\ writes < MaxWrites
    /\ dbpc' = "loop"
    /\ curKey' = key
    /\ work' = store
    /\ pre' = store
    /\ data' = <<>>
    /\ ret' = NoCall
    /\ UNCHANGED <<store, writes, lastWrite>>
    /\ UNCHANGED notDB

\* one iteration of the loop of lines 39-54 on the next row of the frame
SaveRow(row) ==
    /\ dbpc = "loop"
    /\ writes < MaxWrites
    /\ data' = Append(data, row)
    /\ ret' = NoCall
    /\ IF RowConverts(row.bar)
       THEN /\ work' = InsertOrReplace(work, MakeRow(curKey, row.ts, row.bar))
            /\ store' = CommittedAfterExecute(store, work')
            /\ writes' = writes + 1
            /\ dbpc' = "loop"
       ELSE \* the exception leaves the function: the connection is dropped
            \* without a commit and its transaction is rolled back
            /\ work' = store
            /\ dbpc' = "raised"
            /\ UNCHANGED <<store, writes>>
    /\ UNCHANGED <<curKey, pre, lastWrite>>
    /\ UNCHANGED notDB

\* the frame is exhausted: conn.commit(); conn.close()
SaveCommit ==
    /\ dbpc = "loop"
    /\ store' = work
    /\ dbpc' = "done"
    /\ lastWrite' = Record(lastWrite, curKey, data)
    /\ ret' = NoCall
    /\ UNCHANGED <<curKey, work, data, writes, pre>>
    /\ UNCHANGED notDB

\* a call of get_stock_data on its own connection, at any moment
GetStockData(key, days) ==
    /\ ret' = [call |-> "get_stock_data", symbol |-> key[1], market |-> key[2],
               days |-> days, df |-> get_stock_data(store, key[1], key[2], days)]
    /\ UNCHANGED <<store, dbpc, curKey, work, data, writes, pre, lastWrite>>
    /\ UNCHANGED notDB

\* the limits callers pass as days
Limits == (1..NumDays) \cup {DefaultDays}

-----------------------------------------------------------------------------
(* data_fetcher.py: DataFetcher, and main.download_command                  *)

\* a symbol is its base and its suffix, e.g. 0700 + .HK, BTC + -USD
Sym(base, suffix) == [base |-> base, suffix |-> suffix]

\* the text of a symbol
SymText(symbol) == symbol.base \o symbol.suffix

\* symbol.endswith(suffix)
EndsWith(symbol, suffix) == symbol.suffix = suffix

\* symbol.split('.')[0]
SplitDot(symbol) ==
    IF symbol.suffix \in {".HK", ".SZ"} THEN Sym(symbol.base, "") ELSE symbol

\* the column names of the providers' frames ('日期' is written RiQi, '开盘' KaiPan,
\* '最高' ZuiGao, '最低' ZuiDi, '收盘' ShouPan, '成交量' ChengJiaoLiang)
YfColumns == {"Open", "High", "Low", "Close", "Volume", "Dividends", "Stock Splits"}
AkColumns == {"RiQi", "KaiPan", "ShouPan", "ZuiGao", "ZuiDi", "ChengJiaoLiang", "ChengJiaoE"}
StdColumns == {"open", "high", "low", "close", "volume", "amount"}

\* data.rename(columns={...}) of lines 67-73
AkRename(c) ==
    CASE c = "KaiPan" -> "open"
      [] c = "ZuiGao" -> "high"
      [] c = "ZuiDi" -> "low"
      [] c = "ShouPan" -> "close"
      [] c = "ChengJiaoLiang" -> "volume"
      [] OTHER -> c

\* a frame is its set of columns and its number of rows
Df(cols, n) == [cols |-> cols, n |-> n]

\* datetime.strptime(text, '%Y-%m-%d') raises ValueError
StrptimeRaises(text) ==
    \/ Cardinality({i \in 1..Len(text) : text[i] = Dash}) # 2
    \/ \E i \in 1..Len(text) : text[i] # Dash /\ text[i] \notin 48..57
    \/ LET dt == ToDatetime(text)
       IN  \/ dt.y < 1
           \/ dt.m \notin 1..12
           \/ dt.d < 1
           \/ dt.d > DaysInMonth(dt.y, dt.m)

\* the results of a fetch function: None, or a frame
FetchNone == [kind |-> "None", df |-> Df({}, 0)]
FetchFrame(df) == [kind |-> "frame", df |-> df]
FetchRaised(exc) == [kind |-> exc, df |-> Df({}, 0)]

\* what a provider call does: raise, or return a frame
ProviderRaises == [raises |-> TRUE, df |-> Df({}, 0)]
ProviderReturns(df) == [raises |-> FALSE, df |-> df]

\* no provider call was made
NoOutcome == [raises |-> FALSE, df |-> Df({"-"}, 0)]

NoRequest == [api |-> "none", symbol |-> Sym("", ""), start |-> <<>>, end |-> <<>>]

\* datetime + timedelta(days=1) raises OverflowError: datetime.max is 9999-12-31
AddDayOverflows(dt) == dt = [y |-> 9999, m |-> 12, d |-> 31]

\* whether lines 18-19 raise on the end_date text
EndDateRaises(end_date) ==
    StrptimeRaises(end_date) \/ AddDayOverflows(ToDatetime(end_date))

\* end_date handed to yfinance as it was given
YfRequestExclusive(symbol, start_date, end_date) ==
    [api |-> "yfinance", symbol |-> symbol, start |-> start_date, end |-> end_date]

\* lines 18-20: yfinance's end is exclusive, so one day is added to end_date
YfRequest(symbol, start_date, end_date) ==
    [api |-> "yfinance", symbol |-> symbol, start |-> start_date,
     end |-> Strftime(NextDay(ToDatetime(end_date)))]

\* lines 21-28, 43-49, 91-97: shaping of a yfinance frame
YfShape(outcome) ==
    IF outcome.raises THEN FetchNone
    ELSE IF outcome.df.n = 0 THEN FetchNone
    ELSE IF ~({"Open", "High", "Low", "Close", "Volume"} \subseteq outcome.df.cols) THEN FetchNone
    ELSE FetchFrame(Df(StdColumns, outcome.df.n))

\* fetch_us_stock without its try/except: exceptions reach the caller
fetch_us_stock_unguarded(symbol, start_date, end_date, outcome) ==
    IF EndDateRaises(end_date) THEN [req |-> NoRequest, res |-> FetchRaised("ValueError")]
    ELSE [req |-> YfRequest(symbol, start_date, end_date),
          res |-> IF outcome.raises THEN FetchRaised("Exception") ELSE YfShape(outcome)]

\* fetch_us_stock: the request made (if any) and the result
fetch_us_stock(symbol, start_date, end_date, outcome) ==
    IF EndDateRaises(end_date) THEN [req |-> NoRequest, res |-> FetchNone]
    ELSE [req |-> YfRequest(symbol, start_date, end_date), res |-> YfShape(outcome)]

fetch_hk_stock(symbol, start_date, end_date, outcome) ==
    LET sym == IF ~EndsWith(symbol, ".HK") THEN Sym(symbol.base \o symbol.suffix, ".HK") ELSE symbol
    IN  IF EndDateRaises(end_date) THEN [req |-> NoRequest, res |-> FetchNone]
        ELSE [req |-> YfRequest(sym, start_date, end_date), res |-> YfShape(outcome)]

fetch_crypto(symbol, start_date, end_date, outcome) ==
    LET sym == IF ~(EndsWith(symbol, "-USD") \/ EndsWith(symbol, "-USDT"))
               THEN Sym(symbol.base \o symbol.suffix, "-USD") ELSE symbol
    IN  IF EndDateRaises(end_date) THEN [req |-> NoRequest, res |-> FetchNone]
        ELSE [req |-> YfRequest(sym, start_date, end_date), res |-> YfShape(outcome)]

\* lines 62-76: shaping of an AKShare frame
AkShape(outcome) ==
    IF outcome.raises THEN FetchNone
    ELSE IF outcome.df.n = 0 THEN FetchNone
    ELSE IF "RiQi" \notin outcome.df.cols THEN FetchNone
    ELSE LET renamed == {AkRename(c) : c \in outcome.df.cols} \cup {"date"}
         IN  IF ~({"volume", "close"} \subseteq renamed) THEN FetchNone
             ELSE IF ~(StdColumns \subseteq (renamed \cup {"amount"})) THEN FetchNone
             ELSE FetchFrame(Df(StdColumns, outcome.df.n))

fetch_cn_stock(symbol, start_date, end_date, outcome) ==
    IF StrptimeRaises(start_date) \/ StrptimeRaises(end_date)
    THEN [req |-> NoRequest, res |-> FetchNone]
    ELSE [req |-> [api |-> "akshare", symbol |-> SplitDot(symbol), start |-> start_date,
                   end |-> end_date],
          res |-> AkShape(outcome)]

\* fetch_data: the dispatch on market
fetch_data(symbol, market, start_date, end_date, outcome) ==
    CASE market = "US" -> fetch_us_stock(symbol, start_date, end_date, outcome)
      [] market = "HK" -> fetch_hk_stock(symbol, start_date, end_date, outcome)
      [] market = "CN" -> fetch_cn_stock(symbol, start_date, end_date, outcome)
      [] market = "crypto" -> fetch_crypto(symbol, start_date, end_date, outcome)
      [] OTHER -> [req |-> NoRequest, res |-> FetchRaised("ValueError")]

\* argparse: choices=['US', 'HK', 'CN', 'crypto']
Markets == {"US", "HK", "CN", "crypto"}

\* symbols given on the command line
Symbols == {Sym("AAPL", ""), Sym("0700", ""), Sym("0700", ".HK"), Sym("000001", ".SZ"),
            Sym("BTC", ""), Sym("BTC", "-USD")}

\* dates given on the command line: a month end, a year end, the end of
\* February in a leap year, a date written without zero padding, the last
\* date a datetime can hold, and a text that is no date
BadDateText == <<Digit(2), Digit(0), Digit(2), Digit(3), Digit(0), Digit(9), Digit(3), Digit(0)>>
DateTexts ==
    {Strftime(dt) : dt \in {[y |-> 2023, m |-> 9, d |-> 30], [y |-> 2023, m |-> 12, d |-> 31],
                            [y |-> 2024, m |-> 2, d |-> 28], [y |-> 9999, m |-> 12, d |-> 31]}}
        \cup {<<Digit(2), Digit(0), Digit(2), Digit(4), Dash, Digit(3), Dash, Digit(5)>>, BadDateText}
StartTexts == {Strftime([y |-> 2023, m |-> 1, d |-> 1]), BadDateText}

\* what the provider may do with a request
ProviderOutcomes(market) ==
    LET full == IF market = "CN" THEN AkColumns ELSE YfColumns
        short == IF market = "CN" THEN AkColumns \ {"ChengJiaoLiang"} ELSE YfColumns \ {"Volume"}
    IN  {ProviderRaises, ProviderReturns(Df({}, 0)), ProviderReturns(Df(full, 0)),
         ProviderReturns(Df(full, NumDays)), ProviderReturns(Df(short, NumDays))}

NoArgs == [symbol |-> Sym("", ""), market |-> "", start_date |-> <<>>, end_date |-> <<>>]
NoExit == [code |-> 0, exited |-> FALSE, traceback |-> FALSE]
Exit(code) == [code |-> code, exited |-> TRUE, traceback |-> FALSE]
\* an exception nobody catches: the interpreter prints the traceback, status 1
Uncaught == [code |-> 1, exited |-> TRUE, traceback |-> TRUE]

FetchIdle ==
    /\ fpc = "start"
    /\ fargs = NoArgs
    /\ freq = NoRequest
    /\ fprov = NoOutcome
    /\ fres = FetchNone
    /\ fexit = NoExit
    /\ fout = Df({}, 0)

\* main: parser.parse_args() hands the download arguments to download_command
DownloadStart(symbol, market, start_date, end_date) ==
    /\ fpc = "start"
    /\ fpc' = "fetch"
    /\ fargs' = [symbol |-> symbol, market |-> market, start_date |-> start_date,
                 end_date |-> end_date]
    /\ UNCHANGED <<freq, fprov, fres, fexit, fout>>
    /\ UNCHANGED notFetch

\* line 21 of main.py: fetcher.fetch_data(...), with the provider doing outcome
FetchData(outcome) ==
    /\ fpc = "fetch"
    /\ LET r == fetch_data(fargs.symbol, fargs.market, fargs.start_date, fargs.end_date, outcome)
       IN  /\ freq' = r.req
           /\ fprov' = IF r.req.api = "none" THEN NoOutcome ELSE outcome
           /\ fres' = r.res
    /\ fpc' = "fetched"
    /\ UNCHANGED <<fargs, fexit, fout>>
    /\ UNCHANGED notFetch

\* lines 22-28 of main.py
DownloadFinish ==
    /\ fpc = "fetched"
    /\ fpc' = "exit"
    /\ IF fres.kind # "frame" /\ fres.kind # "None"
       THEN fexit' = Uncaught /\ UNCHANGED fout
       ELSE IF fres.kind = "None" \/ fres.df.n = 0
            THEN fexit' = Exit(1) /\ UNCHANGED fout
            ELSE fexit' = Exit(0) /\ fout' = fres.df
    /\ UNCHANGED <<fargs, freq, fprov, fres>>
    /\ UNCHANGED notFetch

\* the cache file a download run may find: never written, or holding rows
CachedStores == {{}, {MakeRow(<<"BTC", "crypto">>, 1, BarA)}, {MakeRow(<<"BTC", "crypto">>, n, BarA) : n \in 1..NumDays}}

-----------------------------------------------------------------------------
(* predictor.py: KronosModelPredictor, and main.predict_command             *)

VARIANT_PRESETS ==
    [mini  |-> [model_id |-> "NeoQuasar/Kronos-mini", tokenizer_id |-> "NeoQuasar/Kronos-Tokenizer-2k",
                max_context |-> 2048],
     small |-> [model_id |-> "NeoQuasar/Kronos-small", tokenizer_id |-> "NeoQuasar/Kronos-Tokenizer-base",
                max_context |-> 512],
     base  |-> [model_id |-> "NeoQuasar/Kronos-base", tokenizer_id |-> "NeoQuasar/Kronos-Tokenizer-base",
                max_context |-> 512]]

\* an optional int argument: None, or a value
NoneInt == [set |-> FALSE, v |-> 0]
SomeInt(v) == [set |-> TRUE, v |-> v]

\* an environment variable read as an int: unset (or empty), digits, or other text
EnvUnset == [set |-> FALSE, isint |-> FALSE, v |-> 0]
EnvInt(v) == [set |-> TRUE, isint |-> TRUE, v |-> v]
EnvJunk == [set |-> TRUE, isint |-> FALSE, v |-> 0]

\* a or b on strings: None and '' are both false
OrStr(a, b) == IF a # "" THEN a ELSE b

\* a or b on optional ints: None and 0 are both false
OrInt(a, b) == IF a.set /\ a.v # 0 THEN a ELSE b

\* str.lower() on the variant names used
Lower(t) ==
    CASE t = "BASE" -> "base"
      [] t = "Small" -> "small"
      [] OTHER -> t

\* int(os.getenv("KRONOS_MAX_CONTEXT")) if os.getenv("KRONOS_MAX_CONTEXT") else None
EnvContext(e) == IF e.set THEN SomeInt(e.v) ELSE NoneInt

NoPredictor ==
    [model_variant |-> "", model_id |-> "", tokenizer_id |-> "", device |-> "", max_context |-> 0]

\* the clamp of lines 136-137 left out
ClampNever(variant, max_context) == max_context

\* lines 135-137
Clamp(variant, max_context) ==
    IF variant \in {"small", "base"} /\ max_context > 512 THEN 512 ELSE max_context

\* KronosModelPredictor.__init__: the exception raised, or the settings resolved
Ctor(cfg) ==
    IF cfg.kronos = "missing" THEN [exc |-> "KronosNotAvailableError", p |-> NoPredictor]
    ELSE LET variant == Lower(OrStr(cfg.model_variant, OrStr(cfg.env_variant, "mini")))
         IN  IF variant \notin DOMAIN VARIANT_PRESETS THEN [exc |-> "ValueError", p |-> NoPredictor]
             ELSE IF cfg.env_max_context.set /\ ~cfg.env_max_context.isint /\ ~(cfg.max_context.set /\ cfg.max_context.v # 0)
                  THEN [exc |-> "ValueError", p |-> NoPredictor]
             ELSE LET preset == VARIANT_PRESETS[variant]
                      resolved == OrInt(cfg.max_context,
                                        OrInt(EnvContext(cfg.env_max_context), SomeInt(preset.max_context)))
                  IN  IF cfg.kronos = "load_error" THEN [exc |-> "OSError", p |-> NoPredictor]
                      ELSE [exc |-> "none",
                            p |-> [model_variant |-> variant,
                                   model_id |-> OrStr(cfg.model_id, OrStr(cfg.env_model_id, preset.model_id)),
                                   tokenizer_id |-> OrStr(cfg.tokenizer_id,
                                                          OrStr(cfg.env_tokenizer_id, preset.tokenizer_id)),
                                   device |-> OrStr(cfg.device,
                                                    OrStr(cfg.env_device, IF cfg.gpu THEN "cuda:0" ELSE "cpu")),
                                   max_context |-> Clamp(variant, resolved.v)]]

\* nothing given to the constructor, nothing set in the environment
DefaultCfg ==
    [kronos |-> "ok", gpu |-> FALSE,
     model_variant |-> "", model_id |-> "", tokenizer_id |-> "", device |-> "", max_context |-> NoneInt,
     env_variant |-> "", env_model_id |-> "", env_tokenizer_id |-> "", env_device |-> "",
     env_max_context |-> EnvUnset]

\* the configurations the predict runs are made with
PredictConfigs ==
    {DefaultCfg,
     [DefaultCfg EXCEPT !.kronos = "missing"],
     [DefaultCfg EXCEPT !.kronos = "load_error"],
     [DefaultCfg EXCEPT !.model_variant = "mini", !.max_context = SomeInt(4096)],
     [DefaultCfg EXCEPT !.model_variant = "small"],
     [DefaultCfg EXCEPT !.model_variant = "base", !.max_context = SomeInt(4096)],
     [DefaultCfg EXCEPT !.env_variant = "BASE", !.env_max_context = EnvInt(2)],
     [DefaultCfg EXCEPT !.env_variant = "huge"],
     [DefaultCfg EXCEPT !.model_variant = "small", !.env_max_context = EnvJunk],
     [DefaultCfg EXCEPT !.model_variant = "small", !.max_context = SomeInt(0), !.env_max_context = EnvInt(2)],
     [DefaultCfg EXCEPT !.model_id = "my/model", !.env_model_id = "env/model",
                        !.env_tokenizer_id = "env/tokenizer", !.device = "cpu", !.env_device = "cuda:1",
                        !.max_context = SomeInt(2), !.env_max_context = EnvInt(4)],
     [DefaultCfg EXCEPT !.tokenizer_id = "my/tokenizer", !.env_tokenizer_id = "env/tokenizer",
                        !.env_model_id = "env/model", !.env_device = "cuda:1", !.gpu = TRUE,
                        !.env_max_context = EnvInt(4096)],
     [DefaultCfg EXCEPT !.gpu = TRUE, !.env_variant = "Small", !.env_max_context = EnvInt(4096)]}

\* a series: its columns, its number of rows, and its DatetimeIndex, which
\* starts at day t0 and advances by step days per row
Series(cols, n, t0, step) == [cols |-> cols, n |-> n, t0 |-> t0, step |-> step]

\* df.index[i - 1]
IndexAt(df, i) == df.t0 + (i - 1) * df.step

\* the validation of lines 172-182 with days < 0 for days <= 0
ValidateDaysNegative(df, days, granularity) ==
    IF df.n = 0 THEN "No data provided for prediction"
    ELSE IF days < 0 THEN "days must be > 0"
    ELSE IF granularity # "day" THEN "Only 'day' granularity is supported currently"
    ELSE IF ~(StdColumns \subseteq df.cols) THEN "Data must contain columns"
    ELSE "ok"

\* lines 172-182: the message of the ValueError raised, or "ok"
Validate(df, days, granularity) ==
    IF df.n = 0 THEN "No data provided for prediction"
    ELSE IF days <= 0 THEN "days must be > 0"
    ELSE IF granularity # "day" THEN "Only 'day' granularity is supported currently"
    ELSE IF ~(StdColumns \subseteq df.cols) THEN "Data must contain columns"
    ELSE "ok"

Min(a, b) == IF a <= b THEN a ELSE b
Max(a, b) == IF a >= b THEN a ELSE b

\* lines 196-201
Lookback(n, lookback_days, max_context) ==
    IF lookback_days.set THEN Min(n, Min(lookback_days.v, max_context))
    ELSE Min(n, max_context)

\* df.tail(k) on n rows: the positions kept (pandas: iloc[0:0] for k = 0, else iloc[-k:])
TailRows(n, k) ==
    IF k = 0 THEN [lo |-> 1, hi |-> 0]
    ELSE IF k > 0 THEN [lo |-> Max(n - k, 0) + 1, hi |-> n]
    ELSE [lo |-> Min(-k, n) + 1, hi |-> n]

WinLen(w) == IF w.hi >= w.lo THEN w.hi - w.lo + 1 ELSE 0

\* a loop test that runs the body once more
LoopContinuesInclusive(len, days) == len <= days

\* line 215: while len(future_ts) < days
LoopContinues(len, days) == len < days

\* line 216: cursor + timedelta(days=1), timestamps counted in days
NextCursor(c) == c + 1

NoForecast == [invoked |-> FALSE, x_lo |-> 1, x_hi |-> 0, x_last |-> 0, y_timestamp |-> <<>>, pred_len |-> 0]
NoError == [exc |-> "none", at |-> ""]
NoPredictArgs ==
    [data |-> Series({}, 0, 0, 1), days |-> 0, granularity |-> "", lookback_days |-> NoneInt]

PredictIdle ==
    /\ ppc = "start"
    /\ pcaller = ""
    /\ pargs = NoPredictArgs
    /\ pcfg = DefaultCfg
    /\ predictor = NoPredictor
    /\ pwin = [lo |-> 1, hi |-> 0]
    /\ future_ts = <<>>
    /\ cursor = 0
    /\ fcall = NoForecast
    /\ perr = NoError
    /\ pexit = NoExit

\* a CSV file: whether pandas can read it, and the frame it holds
CsvFile(readable, df) == [readable |-> readable, df |-> df]

\* load_data_from_csv raises
LoadRaises(file) ==
    \/ ~file.readable
    \/ ~({"open", "high", "low", "close", "volume"} \subseteq file.df.cols)

\* predict_command, lines 33-44, with the arguments argparse hands over
LoadCsv(file, days) ==
    /\ ppc = "start"
    /\ pcaller' = "cli"
    /\ IF LoadRaises(file) \/ file.df.n = 0
       THEN /\ ppc' = "exit"
            /\ pexit' = Exit(1)
            /\ UNCHANGED pargs
       ELSE /\ ppc' = "loaded"
            /\ pargs' = [data |-> file.df, days |-> days, granularity |-> "day",
                         lookback_days |-> NoneInt]
            /\ UNCHANGED pexit
    /\ UNCHANGED <<pcfg, predictor, pwin, future_ts, cursor, fcall, perr>>
    /\ UNCHANGED notPredict

\* a caller other than the CLI that builds a predictor and calls predict_next_days
ApiCall(df, days, granularity, lookback_days) ==
    /\ ppc = "start"
    /\ pcaller' = "api"
    /\ ppc' = "loaded"
    /\ pargs' = [data |-> df, days |-> days, granularity |-> granularity,
                 lookback_days |-> lookback_days]
    /\ UNCHANGED <<pcfg, predictor, pwin, future_ts, cursor, fcall, perr, pexit>>
    /\ UNCHANGED notPredict

\* KronosModelPredictor(...): lines 47-53 of main.py, lines 104-149 of predictor.py
Construct(cfg) ==
    /\ ppc = "loaded"
    /\ pcfg' = cfg
    /\ LET r == Ctor(cfg)
       IN  IF r.exc # "none"
           THEN /\ perr' = [exc |-> r.exc, at |-> "__init__"]
                /\ ppc' = "raised"
                /\ UNCHANGED predictor
           ELSE /\ predictor' = r.p
                /\ ppc' = "constructed"
                /\ UNCHANGED perr
    /\ UNCHANGED <<pcaller, pargs, pwin, future_ts, cursor, fcall, pexit>>
    /\ UNCHANGED notPredict

\* predict_next_days, lines 172-214: validation, the window, the start of the loop
PredictEnter ==
    /\ ppc = "constructed"
    /\ LET msg == Validate(pargs.data, pargs.days, pargs.granularity)
           w == TailRows(pargs.data.n,
                         Lookback(pargs.data.n, pargs.lookback_days, predictor.max_context))
       IN  IF msg # "ok"
           THEN /\ perr' = [exc |-> "ValueError", at |-> "predict_next_days"]
                /\ ppc' = "raised"
                /\ UNCHANGED <<pwin, cursor>>
           ELSE IF WinLen(w) = 0
           THEN \* x_timestamp.iloc[-1] on an empty window
                /\ perr' = [exc |-> "IndexError", at |-> "predict_next_days"]
                /\ ppc' = "raised"
                /\ pwin' = w
                /\ UNCHANGED cursor
           ELSE /\ pwin' = w
                /\ cursor' = IndexAt(pargs.data, w.hi)
                /\ ppc' = "loop"
                /\ UNCHANGED perr
    /\ UNCHANGED <<pcaller, pargs, pcfg, predictor, future_ts, fcall, pexit>>
    /\ UNCHANGED notPredict

\* one iteration of the loop of lines 215-217
FutureStep ==
    /\ ppc = "loop"
    /\ LoopContinues(Len(future_ts), pargs.days)
    /\ cursor' = NextCursor(cursor)
    /\ future_ts' = Append(future_ts, cursor')
    /\ UNCHANGED <<ppc, pcaller, pargs, pcfg, predictor, pwin, fcall, perr, pexit>>
    /\ UNCHANGED notPredict

\* lines 218-242: the loop has ended; the forecaster is called and answers
CallForecaster(answer) ==
    /\ ppc = "loop"
    /\ ~LoopContinues(Len(future_ts), pargs.days)
    /\ fcall' = [invoked |-> TRUE, x_lo |-> pwin.lo, x_hi |-> pwin.hi,
                 x_last |-> IndexAt(pargs.data, pwin.hi),
                 y_timestamp |-> future_ts, pred_len |-> pargs.days]
    /\ IF answer = "returns"
       THEN ppc' = "returned" /\ UNCHANGED perr
       ELSE ppc' = "raised" /\ perr' = [exc |-> answer, at |-> "predict_next_days"]
    /\ UNCHANGED <<pcaller, pargs, pcfg, predictor, pwin, future_ts, cursor, pexit>>
    /\ UNCHANGED notPredict

\* what the forecaster may do: return the predicted rows, or raise
ForecasterAnswers == {"returns", "RuntimeError", "ValueError"}

\* how the run ends: lines 58-79 of main.py for predict_command; a direct
\* caller catches nothing
PredictFinish ==
    /\ ppc \in {"returned", "raised"}
    /\ ppc' = "exit"
    /\ pexit' =
          IF ppc = "returned" THEN Exit(0)
          ELSE IF pcaller = "cli" /\ perr.at = "predict_next_days" /\ perr.exc = "KronosNotAvailableError"
          THEN Exit(2)
          ELSE IF pcaller = "cli" /\ perr.at = "predict_next_days" /\ perr.exc = "ValueError"
          THEN Exit(1)
          ELSE Uncaught
    /\ UNCHANGED <<pcaller, pargs, pcfg, predictor, pwin, future_ts, cursor, fcall, perr>>
    /\ UNCHANGED notPredict

\* the series given to the predictor
SeriesLens == (0..MaxSeries) \cup {VARIANT_PRESETS.small.max_context + 2, VARIANT_PRESETS.mini.max_context + 1}
CsvColumns == {StdColumns, StdColumns \ {"amount"}, {"Open", "High", "Low", "Close", "Volume"}}
CsvFiles ==
    {CsvFile(FALSE, Series({}, 0, 0, 1))}
        \cup {CsvFile(TRUE, Series(c, n, 1, 1)) : c \in CsvColumns, n \in SeriesLens}
ApiSeries == {Series(c, n, 1, 3) : c \in {StdColumns, {"Open", "High", "Low", "Close", "Volume"}}, n \in SeriesLens}
LookbackChoices == {NoneInt, SomeInt(-1), SomeInt(0), SomeInt(2)}

-----------------------------------------------------------------------------
(* The components chained by one caller: fetch_data, save_stock_data,       *)
(* get_stock_data, predict_next_days                                        *)

\* the columns save_stock_data reads from each row (lines 45-54 of database.py)
SaveColumns == {"Open", "High", "Low", "Close", "Volume"}

\* row['Open'] ... row['Volume'] on the first row: KeyError for a missing column
SaveRaisesKeyError(df) == df.n > 0 /\ ~(SaveColumns \subseteq df.cols)

\* the columns of the frame get_stock_data returns; date is its index
ReadColumns == (DOMAIN Frame(MakeRow(<<"", "">>, 1, BarA))) \ {"date"}

\* the rows of a fetched frame of n rows, on the days 1..n
FetchedRows(df) == [i \in 1..df.n |-> [ts |-> i, bar |-> BarA]]

\* the request the chained calls are made for
PipelineSymbol == Sym("BTC", "")
PipelineStart == Strftime([y |-> 2023, m |-> 9, d |-> 30])
PipelineEnd == Strftime(DateOf(NumDays))

\* fetcher.fetch_data(symbol, market, start_date, end_date), the provider doing outcome
PipelineFetch(market, outcome) ==
    /\ fpc = "start"
    /\ fargs' = [symbol |-> PipelineSymbol, market |-> market, start_date |-> PipelineStart,
                 end_date |-> PipelineEnd]
    /\ LET r == fetch_data(PipelineSymbol, market, PipelineStart, PipelineEnd, outcome)
       IN  /\ freq' = r.req
           /\ fprov' = IF r.req.api = "none" THEN NoOutcome ELSE outcome
           /\ fres' = r.res
    /\ fpc' = "fetched"
    /\ UNCHANGED <<fexit, fout>>
    /\ UNCHANGED notFetch

\* db.save_stock_data(symbol, market, data) with the frame fetch_data returned
PipelineSave ==
    /\ fpc = "fetched"
    /\ fres.kind = "frame"
    /\ dbpc = "idle"
    /\ LET key == <<SymText(fargs.symbol), fargs.market>>
           rows == FetchedRows(fres.df)
       IN  /\ curKey' = key
           /\ pre' = store
           /\ ret' = NoCall
           /\ IF SaveRaisesKeyError(fres.df)
              THEN /\ dbpc' = "raised"
                   /\ data' = <<>>
                   /\ work' = store
                   /\ UNCHANGED <<store, writes, lastWrite>>
              ELSE /\ dbpc' = "done"
                   /\ data' = rows
                   /\ store' = SaveAll(store, key, rows)
                   /\ work' = store'
                   /\ writes' = writes + Len(rows)
                   /\ lastWrite' = IF key \in DbKeys THEN Record(lastWrite, key, rows) ELSE lastWrite
    /\ UNCHANGED notDB

\* predictor.predict_next_days(data, days) with the frame fetch_data returned
\* ("fetch") or the frame get_stock_data returned ("cache")
PipelinePredict(source, days) ==
    /\ ppc = "start"
    /\ \/ /\ source = "fetch"
          /\ fpc = "fetched"
          /\ fres.kind = "frame"
          /\ pargs' = [data |-> Series(fres.df.cols, fres.df.n, 1, 1), days |-> days,
                       granularity |-> "day", lookback_days |-> NoneInt]
       \/ /\ source = "cache"
          /\ ret.call = "get_stock_data"
          /\ ~ret.df.none
          /\ pargs' = [data |-> Series(ReadColumns, Len(ret.df.rows), 1, 1), days |-> days,
                       granularity |-> "day", lookback_days |-> NoneInt]
    /\ pcaller' = "api"
    /\ ppc' = "loaded"
    /\ UNCHANGED <<pcfg, predictor, pwin, future_ts, cursor, fcall, perr, pexit>>
    /\ UNCHANGED notPredict

-----------------------------------------------------------------------------
(* Properties of DataFetcher and download_command                           *)

\* C4: for each supported market fetch_data returns None or a frame and never
\* lets an exception reach its caller: None when the provider call raised,
\* when it returned an empty frame, when the rows could not be shaped (a
\* column is missing) and when a date could not be parsed.
C4_ProviderErrorsBecomeNone ==
    (fpc \in {"fetched", "exit"} /\ fargs.market \in Markets) =>
        /\ fres.kind \in {"None", "frame"}
        /\ ~fexit.traceback
        /\ (freq.api = "none" \/ fprov.raises \/ fprov.df.n = 0) => fres.kind = "None"
        /\ fres.kind = "frame" =>
              /\ fres.df.n = fprov.df.n
              /\ fres.df.cols = StdColumns
              /\ \/ {"Open", "High", "Low", "Close", "Volume"} \subseteq fprov.df.cols
                 \/ {"RiQi", "KaiPan", "ZuiGao", "ZuiDi", "ShouPan", "ChengJiaoLiang"} \subseteq fprov.df.cols

\* the provider was called for a US symbol and raised
C4_Witness ==
    /\ fpc = "exit"
    /\ fargs.market = "US"
    /\ freq.api = "yfinance"
    /\ fprov.raises
    /\ fres = FetchNone

\* C5: when the provider fetch fails and rows of the (symbol, market) are
\* cached, the request returns the cached rows; it reports data-unavailable
\* only when the fetch and the cache are both empty.
C5_FallsBackToCache ==
    (fpc = "exit" /\ fres.kind = "None") =>
        LET cached == get_stock_data(store, SymText(fargs.symbol), fargs.market, DefaultDays)
        IN  IF cached.none
            THEN fexit = Exit(1)
            ELSE fexit = Exit(0) /\ fout.n = Len(cached.rows)

\* the number of the day dt, counted from 0001-01-01 as day 1
RECURSIVE DaysBeforeMonth(_, _)
DaysBeforeMonth(y, m) == IF m = 1 THEN 0 ELSE DaysBeforeMonth(y, m - 1) + DaysInMonth(y, m - 1)
Ordinal(dt) ==
    365 * (dt.y - 1) + ((dt.y - 1) \div 4) - ((dt.y - 1) \div 100) + ((dt.y - 1) \div 400)
        + DaysBeforeMonth(dt.y, dt.m) + dt.d

\* C11: every request made to yfinance (US, HK, crypto) carries the caller's
\* start date unchanged and, as its end, the '%Y-%m-%d' text of the day after
\* the caller's end date, so the end date lies before the exclusive boundary;
\* every request made to AKShare (CN) carries both dates unchanged.
C11_EndBoundaryIsNextDay ==
    /\ freq.api = "yfinance" =>
          /\ fargs.market \in {"US", "HK", "crypto"}
          /\ freq.start = fargs.start_date
          /\ ~StrptimeRaises(freq.end)
          /\ freq.end = Strftime(ToDatetime(freq.end))
          /\ Ordinal(ToDatetime(freq.end)) = Ordinal(ToDatetime(fargs.end_date)) + 1
    /\ freq.api = "akshare" =>
          /\ fargs.market = "CN"
          /\ freq.start = fargs.start_date
          /\ freq.end = fargs.end_date
    /\ (fpc \in {"fetched", "exit"} /\ fargs.market \in Markets /\ ~StrptimeRaises(fargs.start_date)
            /\ ~EndDateRaises(fargs.end_date)) => freq.api # "none"

\* a request went to yfinance for an end date on the last day of a year
C11_Witness ==
    /\ freq.api = "yfinance"
    /\ ToDatetime(fargs.end_date).m = 12
    /\ ToDatetime(freq.end).y = ToDatetime(fargs.end_date).y + 1

-----------------------------------------------------------------------------
(* Properties of StockDatabase                                              *)

\* the column values a stored row must carry for the input row b
CarriesValues(r, b) ==
    /\ \A c \in {<<r.open, b.Open>>, <<r.high, b.High>>, <<r.low, b.Low>>, <<r.close, b.Close>>} :
          IF c[2].k = "num" THEN c[1] = c[2] ELSE c[1].k = "null"
    /\ r.volume.k = "num"
    /\ 2 * r.volume.v <= b.Volume.v
    /\ b.Volume.v < 2 * r.volume.v + 2

RowsAt(t, key, n) ==
    {r \in t : r.symbol = key[1] /\ r.market = key[2] /\ ToDatetime(r.date) = DateOf(n)}

\* C1: after any sequence of save_stock_data calls the table holds at most one
\* row per (symbol, market, date); that row exists exactly when a committed
\* call wrote the key and carries the open/high/low/close/volume of the latest
\* such write; and saving the batch just saved once more leaves the same rows.
C1_UpsertKeepsLatest ==
    /\ \A r \in store : \A q \in store :
          (r.symbol = q.symbol /\ r.market = q.market /\ r.date = q.date) => r = q
    /\ \A r \in store : \E key \in DbKeys, n \in 1..NumDays : r \in RowsAt(store, key, n)
    /\ \A key \in DbKeys, n \in 1..NumDays :
          /\ Cardinality(RowsAt(store, key, n)) = Cardinality(lastWrite[key][n])
          /\ \A r \in RowsAt(store, key, n), b \in lastWrite[key][n] : CarriesValues(r, b)
    /\ dbpc = "done" => SaveAll(store, curKey, data) = store

\* a committed call has replaced a row that an earlier call had stored
C1_Witness ==
    /\ dbpc = "done"
    /\ \E i \in 1..Len(data) : \E r \in RowsAt(pre, curKey, data[i].ts) : r \notin store


\* C2: get_stock_data(symbol, market, N) with N >= 1 returns None exactly when
\* no row of the key is stored; otherwise only rows stored for that key, in
\* strictly ascending date order, min(N, rows stored) of them, and every row
\* of the key it leaves out is older than every row it returns.
C2_ReadNewestAscending ==
    (ret.call = "get_stock_data" /\ ret.days >= 1) =>
        LET matching == {r \in store : r.symbol = ret.symbol /\ r.market = ret.market}
            rows == ret.df.rows
        IN  /\ ret.df.none <=> matching = {}
            /\ ret.df.none => rows = <<>>
            /\ Len(rows) = Min(ret.days, Cardinality(matching))
            /\ \A i \in 1..Len(rows) : \E r \in matching :
                  /\ ToDatetime(r.date) = rows[i].date
                  /\ <<r.open, r.high, r.low, r.close, r.volume>>
                       = <<rows[i].Open, rows[i].High, rows[i].Low, rows[i].Close, rows[i].Volume>>
            /\ \A i \in 1..(Len(rows) - 1) : DateLess(rows[i].date, rows[i + 1].date)
            /\ \A r \in matching :
                  (\A i \in 1..Len(rows) : rows[i].date # ToDatetime(r.date))
                      => \A i \in 1..Len(rows) : DateLess(ToDatetime(r.date), rows[i].date)

\* a read with a limit smaller than the number of rows stored for the key
C2_Witness ==
    /\ ret.call = "get_stock_data"
    /\ ~ret.df.none
    /\ Cardinality({r \in store : r.symbol = ret.symbol /\ r.market = ret.market}) > ret.days

\* C3: a batch is persisted all-rows-or-none: while save_stock_data is in its
\* loop, and after a row that cannot be converted has ended it, the committed
\* table is the one the call found; once the call has returned, a row is
\* committed for every row of the batch.
C3_AllOrNone ==
    /\ dbpc \in {"loop", "raised"} => store = pre
    /\ dbpc = "done" => \A i \in 1..Len(data) : RowsAt(store, curKey, data[i].ts) # {}

\* the loop stored a row and then met a row it could not convert
C3_Witness ==
    /\ dbpc = "raised"
    /\ \E i \in 1..(Len(data) - 1) : RowConverts(data[i].bar) /\ RowsAt(store, curKey, data[i].ts) = {}

-----------------------------------------------------------------------------
(* Properties of KronosModelPredictor and predict_command                    *)

\* predict_next_days has been entered
PredictEntered ==
    \/ ppc \in {"loop", "returned"}
    \/ perr.at = "predict_next_days"
    \/ fcall.invoked

\* C6: a run of the predict command made while the Kronos package cannot be
\* imported ends with exit status 2, and every run of the predict command ends
\* with status 0, 1 or 2.
C6_UnavailableExitsTwo ==
    (pcaller = "cli" /\ ppc = "exit") =>
        /\ pexit.code \in {0, 1, 2}
        /\ perr.exc = "KronosNotAvailableError" => pexit.code = 2

\* C7: whenever predict_next_days is entered with days <= 0, with empty data,
\* with a granularity other than "day" or without the required columns, it
\* raises ValueError, and the forecaster is not invoked and no future timestamp
\* is built.
C7_InvalidCallsNeverForecast ==
    LET invalid ==
            \/ pargs.days <= 0
            \/ pargs.data.n = 0
            \/ pargs.granularity # "day"
            \/ ~(StdColumns \subseteq pargs.data.cols)
    IN  (PredictEntered /\ invalid) =>
            /\ perr = [exc |-> "ValueError", at |-> "predict_next_days"]
            /\ ~fcall.invoked
            /\ future_ts = <<>>

\* predict_next_days has rejected days <= 0 on a series that is otherwise valid
C7_Witness ==
    /\ ppc = "exit"
    /\ perr = [exc |-> "ValueError", at |-> "predict_next_days"]
    /\ pargs.days <= 0
    /\ pargs.data.n > 0
    /\ pargs.granularity = "day"
    /\ StdColumns \subseteq pargs.data.cols

\* C8: a non-empty series of fewer than w + 1 rows (w = 5) never gets as far
\* as the timestamp loop or the forecaster: predict_next_days raises first.
C8_RejectsShortSeries ==
    LET w == 5
    IN  (PredictEntered /\ pargs.data.n >= 1 /\ pargs.data.n < w + 1) =>
            /\ ppc # "loop"
            /\ ~fcall.invoked
            /\ perr.at = "predict_next_days"

\* C9: the window given to the forecaster ends with the last row of the series
\* and has no more rows than the preset max_context of the predictor's variant.
C9_WindowWithinContext ==
    fcall.invoked =>
        /\ fcall.x_hi = pargs.data.n
        /\ fcall.x_hi - fcall.x_lo + 1 <= VARIANT_PRESETS[predictor.model_variant].max_context

\* C10: the forecaster is always called with pred_len = days and with exactly
\* days future timestamps, the k-th being the last timestamp of the window plus
\* k days; and once the timestamp loop is entered the forecaster is called.
C10_FutureTimestamps ==
    /\ [](fcall.invoked =>
            /\ fcall.pred_len = pargs.days
            /\ Len(fcall.y_timestamp) = pargs.days
            /\ \A k \in 1..Len(fcall.y_timestamp) :
                  fcall.y_timestamp[k] = IndexAt(pargs.data, fcall.x_hi) + k)
    /\ (ppc = "loop" ~> fcall.invoked)

\* the forecaster has been called for two days or more, on a window that is
\* shorter than the series and whose index does not advance by single days
C10_Witness ==
    /\ fcall.invoked
    /\ fcall.pred_len >= 2
    /\ fcall.x_lo > 1
    /\ pargs.data.step > 1

\* C12: a predictor that was constructed uses, for model id, tokenizer id,
\* device and max_context, the constructor argument when one was supplied,
\* else the environment variable when it is set, else the preset of its variant
\* (for the device: cuda:0 with a GPU, else cpu); for small and base the
\* max_context so resolved is lowered to 512 when it is larger.
C12_ArgumentThenEnvThenPreset ==
    predictor # NoPredictor =>
        LET preset == VARIANT_PRESETS[predictor.model_variant]
            First(arg, env, default) == IF arg # "" THEN arg ELSE IF env # "" THEN env ELSE default
            context == IF pcfg.max_context.set THEN pcfg.max_context.v
                       ELSE IF pcfg.env_max_context.set THEN pcfg.env_max_context.v
                       ELSE preset.max_context
        IN  /\ predictor.model_id = First(pcfg.model_id, pcfg.env_model_id, preset.model_id)
            /\ predictor.tokenizer_id = First(pcfg.tokenizer_id, pcfg.env_tokenizer_id, preset.tokenizer_id)
            /\ predictor.device = First(pcfg.device, pcfg.env_device, IF pcfg.gpu THEN "cuda:0" ELSE "cpu")
            /\ predictor.max_context =
                  IF predictor.model_variant \in {"small", "base"} /\ context > 512 THEN 512 ELSE context

\* C13: the components agree on the columns of a series: save_stock_data
\* stores every non-empty frame that fetch_data returned, and
\* predict_next_days does not reject a frame that get_stock_data returned for
\* its columns.
C13_OneColumnSchema ==
    /\ (fpc = "fetched" /\ dbpc # "idle") =>
          /\ dbpc = "done"
          /\ \A i \in 1..fres.df.n : RowsAt(store, curKey, i) # {}
    /\ (PredictEntered /\ pargs.data.cols = ReadColumns) =>
          perr # [exc |-> "ValueError", at |-> "predict_next_days"]

-----------------------------------------------------------------------------
(* The specifications                                                      *)

InitDB ==
    /\ store = {}
    /\ dbpc = "idle"
    /\ curKey = <<"BTC", "US">>
    /\ work = {}
    /\ data = <<>>
    /\ writes = 0
    /\ pre = {}
    /\ lastWrite = [k \in DbKeys |-> [n \in 1..NumDays |-> {}]]
    /\ ret = NoCall
    /\ FetchIdle
    /\ PredictIdle

NextDB ==
    \/ \E key \in DbKeys : SaveConnect(key)
    \/ \E row \in InputRows : SaveRow(row)
    \/ SaveCommit
    \/ \E key \in DbKeys, days \in Limits : GetStockData(key, days)

SpecDB == InitDB /\ [][NextDB]_vars

InitFetch ==
    /\ store \in CachedStores
    /\ dbpc = "idle"
    /\ curKey = <<"BTC", "US">>
    /\ work = {}
    /\ data = <<>>
    /\ writes = 0
    /\ pre = {}
    /\ lastWrite = [k \in DbKeys |-> [n \in 1..NumDays |-> {}]]
    /\ ret = NoCall
    /\ FetchIdle
    /\ PredictIdle

NextFetch ==
    \/ \E symbol \in Symbols, market \in Markets, s \in StartTexts, e \in DateTexts :
          DownloadStart(symbol, market, s, e)
    \/ \E outcome \in ProviderOutcomes(fargs.market) : FetchData(outcome)
    \/ DownloadFinish

SpecFetch == InitFetch /\ [][NextFetch]_vars

InitPredict ==
    /\ store = {}
    /\ dbpc = "idle"
    /\ curKey = <<"BTC", "US">>
    /\ work = {}
    /\ data = <<>>
    /\ writes = 0
    /\ pre = {}
    /\ lastWrite = [k \in DbKeys |-> [n \in 1..NumDays |-> {}]]
    /\ ret = NoCall
    /\ FetchIdle
    /\ PredictIdle

NextPredict ==
    \/ \E file \in CsvFiles, days \in (-1)..MaxDays : LoadCsv(file, days)
    \/ \E df \in ApiSeries, days \in (-1)..MaxDays, g \in {"day", "week"}, lb \in LookbackChoices :
          ApiCall(df, days, g, lb)
    \/ \E cfg \in PredictConfigs : Construct(cfg)
    \/ PredictEnter
    \/ FutureStep
    \/ \E answer \in ForecasterAnswers : CallForecaster(answer)
    \/ PredictFinish

SpecPredict == InitPredict /\ [][NextPredict]_vars

\* the code is sequential: a call that can take its next step takes it
FairPredict == SpecPredict /\ WF_vars(NextPredict)

NextPipeline ==
    \/ \E market \in Markets : \E outcome \in ProviderOutcomes(market) : PipelineFetch(market, outcome)
    \/ PipelineSave
    \/ \E key \in DbKeys, days \in Limits : GetStockData(key, days)
    \/ \E source \in {"fetch", "cache"}, days \in 1..MaxDays : PipelinePredict(source, days)
    \/ \E cfg \in {DefaultCfg, [DefaultCfg EXCEPT !.model_variant = "small"]} : Construct(cfg)
    \/ PredictEnter
    \/ FutureStep
    \/ \E answer \in ForecasterAnswers : CallForecaster(answer)
    \/ PredictFinish

\* the chained calls start on a cache file as a download run may find it
SpecPipeline == InitFetch /\ [][NextPipeline]_vars

====
